---- MODULE Spec2Model ----
(***************************************************************************)
(* awscurl (legal90/awscurl): one invocation of the command line tool,     *)
(* modelled from main.go.  main() runs rootCmd.Execute(), which runs       *)
(* runCurl once; runCurl is split at each call that reads the environment  *)
(* or can return an error.  The command line is taken as cobra has parsed  *)
(* it: exactly one URL (cobra.ExactArgs(1)) and the flags in flags.         *)
(*                                                                         *)
(* Strings that the program takes apart (header arguments, the -d value,   *)
(* payload bytes) are sequences of one-character strings.  Strings that    *)
(* the program only compares with "" or copies (keys, profile and region   *)
(* names, the proxy, the URL) are TLA+ strings.                            *)
(***************************************************************************)
EXTENDS Integers, Sequences, FiniteSets

\* At most this many --header arguments on the command line.
MaxHeaders == 2
\* A payload file holds at most this many bytes.
MaxFileLen == 1
\* time.Now() returns one of the instants 1..MaxTime.
MaxTime == 2

(***************************************************************************)
(* Library functions of the Go runtime that runCurl applies to its input.  *)
(***************************************************************************)

\* strings.HasPrefix
HasPrefix(s, p) ==
    Len(s) >= Len(p) /\ SubSeq(s, 1, Len(p)) = p

\* strings.Split(s, sep) for a one-character separator: the pieces between
\* every occurrence of sep, so n separators give n + 1 pieces.
RECURSIVE Split(_, _)
Split(s, sep) ==
    IF \A i \in 1..Len(s) : s[i] # sep
    THEN <<s>>
    ELSE LET i == CHOOSE k \in 1..Len(s) :
                      s[k] = sep /\ \A j \in 1..(k - 1) : s[j] # sep
         IN  <<SubSeq(s, 1, i - 1)>> \o Split(SubSeq(s, i + 1, Len(s)), sep)

\* strings.TrimSpace: leading and trailing white space removed.
RECURSIVE TrimSpace(_)
TrimSpace(s) ==
    IF s = <<>> THEN <<>>
    ELSE IF s[1] = " " THEN TrimSpace(Tail(s))
    ELSE IF s[Len(s)] = " " THEN TrimSpace(SubSeq(s, 1, Len(s) - 1))
    ELSE s

\* Upper and lower case of the letters the header arguments are made of.
ToUpper(c) == CASE c = "n" -> "N" [] c = "v" -> "V" [] OTHER -> c
ToLower(c) == CASE c = "N" -> "n" [] c = "V" -> "v" [] OTHER -> c

\* textproto.CanonicalMIMEHeaderKey, which http.Header.Add applies to the
\* key: the first letter and every letter after a "-" in upper case, the
\* others in lower case; a key holding a byte that is no token byte (a
\* space here) is left as it is.
RECURSIVE CanonicalFrom(_, _)
CanonicalFrom(s, upper) ==
    IF s = <<>> THEN <<>>
    ELSE <<IF upper THEN ToUpper(s[1]) ELSE ToLower(s[1])>>
         \o CanonicalFrom(Tail(s), s[1] = "-")

CanonicalMIMEHeaderKey(s) ==
    IF \E i \in 1..Len(s) : s[i] \in {" ", ":"} THEN s ELSE CanonicalFrom(s, TRUE)

\* http.Header is a map from canonical key to the list of its values.
EmptyHeader == [k \in {} |-> <<>>]

\* http.Header.Add: the value is appended to the key's list.
HeaderAdd(h, key, value) ==
    LET k == CanonicalMIMEHeaderKey(key)
    IN  [x \in DOMAIN h \cup {k} |->
            IF x = k
            THEN (IF k \in DOMAIN h THEN h[k] ELSE <<>>) \o <<value>>
            ELSE h[x]]

\* The number of values a header map holds, over all keys.
RECURSIVE HeaderCount(_)
HeaderCount(h) ==
    IF DOMAIN h = {} THEN 0
    ELSE LET k == CHOOSE x \in DOMAIN h : TRUE
         IN  Len(h[k]) + HeaderCount([x \in DOMAIN h \ {k} |-> h[x]])

\* An io.Reader: the bytes it holds, how many have been read, and the number
\* of bytes after which reading fails (-1: it never fails).
Reader(data, failAt) == [data |-> data, pos |-> 0, failAt |-> failAt]

\* strings.NewReader, bytes.NewReader: reading them never fails.
NewReader(data) == Reader(data, -1)

\* ioutil.ReadAll: the bytes from the reader's position to its end, or to the
\* place where reading fails, together with the error.
ReadAll(r) ==
    IF r.failAt >= r.pos
    THEN [data |-> SubSeq(r.data, r.pos + 1, r.failAt), err |-> "read"]
    ELSE [data |-> SubSeq(r.data, r.pos + 1, Len(r.data)), err |-> ""]

\* The reader once ReadAll has drained it.
Drained(r) == [r EXCEPT !.pos = Len(ReadAll(r).data) + r.pos]

\* hashSHA256: the hex digest of content.  SHA-256 is taken as collision
\* free: the digest stands for exactly the bytes that were hashed.
hashSHA256(content) == [alg |-> "sha256", of |-> content]

(***************************************************************************)
(* The command line and the environment of one invocation.                 *)
(***************************************************************************)

\* The --header arguments tried: no colon ("BadHeader"), " Name: Value" with
\* white space to trim, and a value that holds a colon itself (a URL,
\* host:port, a time).
HeaderArgs ==
    { <<"n">>,
      <<" ", "n", ":", " ", "v">>,
      <<"n", ":", "v", ":", "v">> }

RECURSIVE SeqsUpTo(_, _)
SeqsUpTo(S, n) ==
    IF n = 0 THEN {<<>>}
    ELSE LET shorter == SeqsUpTo(S, n - 1)
         IN  shorter \cup {Append(q, x) : q \in shorter, x \in S}

\* The bytes of a payload.
Byte == {"x", "y"}

\* The -d arguments tried: none, a literal string, and @f naming a file.
DataArgs == { <<>>, <<"x", "y">>, <<"@", "f">> }

\* awsCURLFlags as cobra fills it from the command line (method, service and
\* insecure are passed through to the libraries and are left out).
FlagSet ==
    [ headers         : SeqsUpTo(HeaderArgs, MaxHeaders),
      data            : DataArgs,
      awsAccessKey    : {"", "AKIDFLAG"},
      awsSecretKey    : {"", "secretflag"},
      awsSessionToken : {"", "tokenflag"},
      awsProfile      : {"", "p1", "nosuch"},
      awsRegion       : {"", "flag-region"},
      proxy           : {"", "http://proxy:8080", "%zz"},
      url             : {"https://api.example", ":bad"} ]

\* The environment variables the SDK reads.  The key and the secret are set
\* together or not at all.
EnvSet ==
    { [ AWS_ACCESS_KEY_ID     |-> k[1],
        AWS_SECRET_ACCESS_KEY |-> k[2],
        AWS_SESSION_TOKEN     |-> "",
        AWS_REGION            |-> r ] :
      k \in { <<"", "">>, <<"AKIDENV", "secretenv">> },
      r \in { "", "env-region" } }

\* aws.Credentials, and its zero value.
Credentials(id, secret, token, source) ==
    [ AccessKeyID |-> id, SecretAccessKey |-> secret,
      SessionToken |-> token, Source |-> source ]

NoCredentials == Credentials("", "", "", "")

HasKeys(c) == c.AccessKeyID # "" /\ c.SecretAccessKey # ""

\* The shared config files (~/.aws/config, ~/.aws/credentials): they hold the
\* one profile p1, with static keys and a region.
SharedProfiles == {"p1"}

SharedConfigProfile(name) ==
    IF name \in SharedProfiles
    THEN [ Credentials |-> Credentials("AKIDPROFILE", "secretprofile", "",
                                       "SharedConfigCredentials"),
           Region |-> "profile-region" ]
    ELSE [ Credentials |-> NoCredentials, Region |-> "" ]

\* What the instance metadata service may hand out.
RoleCredentials == Credentials("AKIDROLE", "secretrole", "tokenrole", "EC2RoleProvider")

\* An aws.CredentialsProvider: static credentials, or the EC2 role provider,
\* which fetches from the instance metadata service when asked to Retrieve.
StaticProvider(c) == [kind |-> "static", value |-> c]
EC2RoleProvider   == [kind |-> "ec2role", value |-> NoCredentials]
NilProvider       == [kind |-> "nil", value |-> NoCredentials]

\* credentials.NewStaticCredentialsProvider
NewStaticCredentialsProvider(key, secret, session) ==
    StaticProvider(Credentials(key, secret, session, "StaticCredentials"))

\* aws.Config, as far as runCurl uses it, and its zero value.
ZeroConfig == [Credentials |-> NilProvider, Region |-> ""]

\* config.LoadDefaultConfig with the options getAWSConfig passes: profile is
\* the WithSharedConfigProfile option ("" when absent), provider the
\* WithCredentialsProvider option (NilProvider when absent).  A profile asked
\* for by name must exist.  The region comes from the environment, then from
\* the profile.  The credentials come from the provider option; else from the
\* profile named by option; else from the environment; else from the default
\* profile (absent here); else from the instance role.  No provider is asked
\* for credentials here: that happens in Retrieve.
LoadDefaultConfig(profile, provider, e) ==
    LET shared  == SharedConfigProfile(IF profile # "" THEN profile ELSE "default")
        envCred == Credentials(e.AWS_ACCESS_KEY_ID, e.AWS_SECRET_ACCESS_KEY,
                               e.AWS_SESSION_TOKEN, "EnvConfigCredentials")
        fromProfile ==
            IF HasKeys(shared.Credentials)
            THEN StaticProvider(shared.Credentials)
            ELSE EC2RoleProvider
        chain ==
            IF provider # NilProvider THEN provider
            ELSE IF profile # "" THEN fromProfile
            ELSE IF HasKeys(envCred) THEN StaticProvider(envCred)
            ELSE fromProfile
    IN  IF profile # "" /\ profile \notin SharedProfiles
        THEN [cfg |-> ZeroConfig, err |-> "failed to get shared config profile"]
        ELSE [cfg |-> [ Credentials |-> chain,
                        Region |-> IF e.AWS_REGION # "" THEN e.AWS_REGION
                                   ELSE shared.Region ],
              err |-> ""]

\* getAWSConfig with the static credentials used only when no profile is
\* named (else if in place of the second if).
getAWSConfigElseIf(f, e) ==
    LET provider ==
            IF f.awsProfile = "" /\ f.awsAccessKey # "" /\ f.awsSecretKey # ""
            THEN NewStaticCredentialsProvider(f.awsAccessKey, f.awsSecretKey,
                                              f.awsSessionToken)
            ELSE NilProvider
        loaded == LoadDefaultConfig(f.awsProfile, provider, e)
    IN  IF loaded.err # ""
        THEN [cfg |-> loaded.cfg, err |-> "Unable to load AWS config"]
        ELSE [cfg |-> [loaded.cfg EXCEPT !.Region =
                          IF f.awsRegion # "" THEN f.awsRegion ELSE @],
              err |-> ""]

\* getAWSConfig: the profile option when --profile is given, the static
\* credentials option when both --access-key and --secret-key are given
\* (the session token goes with them), then LoadDefaultConfig, then the
\* --region flag over the region it found.
getAWSConfig(f, e) ==
    LET provider ==
            IF f.awsAccessKey # "" /\ f.awsSecretKey # ""
            THEN NewStaticCredentialsProvider(f.awsAccessKey, f.awsSecretKey,
                                              f.awsSessionToken)
            ELSE NilProvider
        loaded == LoadDefaultConfig(f.awsProfile, provider, e)
    IN  IF loaded.err # ""
        THEN [cfg |-> loaded.cfg, err |-> "Unable to load AWS config"]
        ELSE [cfg |-> [loaded.cfg EXCEPT !.Region =
                          IF f.awsRegion # "" THEN f.awsRegion ELSE @],
              err |-> ""]

(***************************************************************************)
(* The state of one invocation.                                            *)
(***************************************************************************)

VARIABLES
    flags,          \* the package variable flags (awsCURLFlags)
    env,            \* the environment variables
    pc,             \* the statement of runCurl / main that runs next
    cfg,            \* runCurl's cfg
    file,           \* the file the -d @FILE argument names, once opened
    body,           \* runCurl's body, an io.Reader
    req,            \* the *http.Request
    hIdx,           \* the index of the header the loop handles next
    reqBodySHA256,  \* the payload hash handed to the signer
    creds,          \* runCurl's creds
    target,         \* how the target answers the request in flight
    sent,           \* what the transport has put on the wire
    response,       \* the *http.Response
    content,        \* the response body as read
    stdout,         \* what was written to standard output
    stderr,         \* what was written to standard error
    err,            \* the error runCurl returned ("" is nil)
    exitCode,       \* the exit status, -1 while the process runs
    trace           \* the steps taken so far, in order

vars == << flags, env, pc, cfg, file, body, req, hIdx, reqBodySHA256, creds,
           target, sent, response, content, stdout, stderr, err, exitCode,
           trace >>

\* The hash variable before hashSHA256 has run.
NoHash == [alg |-> "", of |-> <<>>]

\* The signature headers SignHTTP adds (Authorization, X-Amz-Date and
\* X-Amz-Security-Token): what was signed, with which credentials, for which
\* scope, at which instant.
SignatureOf(c, r, payloadHash, region, now) ==
    [ signed |-> TRUE, Credentials |-> c, Header |-> r.Header, URL |-> r.URL,
      PayloadHash |-> payloadHash, Region |-> region, Time |-> now ]

NoSignature ==
    [ signed |-> FALSE, Credentials |-> NoCredentials, Header |-> EmptyHeader,
      URL |-> "", PayloadHash |-> NoHash, Region |-> "", Time |-> 0 ]

\* The request before http.NewRequest has built it.
NoRequest ==
    [ URL |-> "", Header |-> EmptyHeader, Body |-> NewReader(<<>>),
      Signature |-> NoSignature ]

\* No file opened.
NoFile == [kind |-> "none", content |-> <<>>, failAt |-> -1]

\* What os.Open may find under the path: nothing, a directory (it opens, and
\* every read of it fails), or a regular file whose reading succeeds or
\* fails after some, but not all, of its bytes.
FileStates ==
    { [kind |-> "absent", content |-> <<>>, failAt |-> -1],
      [kind |-> "directory", content |-> <<>>, failAt |-> 0] }
    \cup UNION { { [kind |-> "regular", content |-> c, failAt |-> k] :
                   k \in -1..(Len(c) - 1) } : c \in SeqsUpTo(Byte, MaxFileLen) }

\* The response a target that answers may give: a status and a body whose
\* reading succeeds or breaks off.
Responses ==
    { [StatusCode |-> st, Body |-> Reader(<<"o", "k">>, k)] :
      st \in {200, 403}, k \in {-1, 1} }

NoResponse == [StatusCode |-> 0, Body |-> NewReader(<<>>)]

\* How the target may behave once the request is on its way: it answers,
\* the connection fails, or it accepts the connection and stays silent.
TargetBehaviours == {"answers", "fails", "silent"}

\* url.Parse and http.NewRequest reject these.
BadURLs == {":bad", "%zz"}

Init ==
    /\ flags \in FlagSet
    /\ env \in EnvSet
    /\ pc = "getAWSConfig"
    /\ cfg = ZeroConfig
    /\ file = NoFile
    /\ body = NewReader(<<>>)
    /\ req = NoRequest
    /\ hIdx = 1
    /\ reqBodySHA256 = NoHash
    /\ creds = NoCredentials
    /\ target = "none"
    /\ sent = <<>>
    /\ response = NoResponse
    /\ content = <<>>
    /\ stdout = <<>>
    /\ stderr = <<>>
    /\ err = ""
    /\ exitCode = -1
    /\ trace = <<>>

(***************************************************************************)
(* runCurl, statement by statement.                                        *)
(***************************************************************************)

\* cfg, err := getAWSConfig(flags); an error is returned.  Loading the
\* configuration reads the environment and the shared files only.
GetAWSConfig ==
    /\ pc = "getAWSConfig"
    /\ LET r == getAWSConfig(flags, env)
       IN  IF r.err # ""
           THEN /\ err' = r.err
                /\ pc' = "return"
                /\ cfg' = cfg
           ELSE /\ cfg' = r.cfg
                /\ pc' = "openBody"
                /\ err' = err
    /\ trace' = Append(trace, "config")
    /\ UNCHANGED << flags, env, file, body, req, hIdx, reqBodySHA256, creds,
                    target, sent, response, content, stdout, stderr, exitCode >>

\* The body: os.Open of the path after "@" (an error is returned), or a
\* reader over the -d string itself.
OpenBody ==
    /\ pc = "openBody"
    /\ IF HasPrefix(flags.data, <<"@">>)
       THEN \E f \in FileStates :
               /\ file' = f
               /\ IF f.kind = "absent"
                  THEN /\ err' = "open: no such file or directory"
                       /\ pc' = "return"
                       /\ body' = body
                  ELSE /\ body' = Reader(f.content, f.failAt)
                       /\ pc' = "newRequest"
                       /\ err' = err
       ELSE /\ body' = NewReader(flags.data)
            /\ pc' = "newRequest"
            /\ UNCHANGED << file, err >>
    /\ UNCHANGED << flags, env, cfg, req, hIdx, reqBodySHA256, creds, target,
                    sent, response, content, stdout, stderr, exitCode, trace >>

\* req, err := http.NewRequest(flags.method, url, body); an error (the URL
\* does not parse) is returned.
NewRequest ==
    /\ pc = "newRequest"
    /\ IF flags.url \in BadURLs
       THEN /\ err' = "parse url"
            /\ pc' = "return"
            /\ req' = req
       ELSE /\ req' = [ URL |-> flags.url, Header |-> EmptyHeader,
                        Body |-> body, Signature |-> NoSignature ]
            /\ pc' = "headers"
            /\ err' = err
    /\ hIdx' = 1
    /\ UNCHANGED << flags, env, cfg, file, body, reqBodySHA256, creds, target,
                    sent, response, content, stdout, stderr, exitCode, trace >>

\* The header loop skipping an argument that does not split in two, where
\* the code returns the error.
AddHeaderSkipInvalid ==
    /\ pc = "headers"
    /\ hIdx <= Len(flags.headers)
    /\ LET h      == flags.headers[hIdx]
           hParts == Split(h, ":")
       IN  IF Len(hParts) # 2
           THEN req' = req
           ELSE req' = [req EXCEPT !.Header =
                           HeaderAdd(@, TrimSpace(hParts[1]), TrimSpace(hParts[2]))]
    /\ hIdx' = hIdx + 1
    /\ UNCHANGED << flags, env, pc, err, cfg, file, body, reqBodySHA256, creds,
                    target, sent, response, content, stdout, stderr, exitCode,
                    trace >>

\* One turn of the loop over flags.headers: the argument is split at every
\* ":"; unless that gives exactly two parts the invalid-header error is
\* returned; else the trimmed name and value are added to the request.
AddHeader ==
    /\ pc = "headers"
    /\ hIdx <= Len(flags.headers)
    /\ LET h      == flags.headers[hIdx]
           hParts == Split(h, ":")
       IN  IF Len(hParts) # 2
           THEN /\ err' = "Error: Invalid header"
                /\ pc' = "return"
                /\ UNCHANGED << req, hIdx >>
           ELSE /\ req' = [req EXCEPT !.Header =
                              HeaderAdd(@, TrimSpace(hParts[1]), TrimSpace(hParts[2]))]
                /\ hIdx' = hIdx + 1
                /\ UNCHANGED << pc, err >>
    /\ UNCHANGED << flags, env, cfg, file, body, reqBodySHA256, creds, target,
                    sent, response, content, stdout, stderr, exitCode, trace >>

\* readAndReplaceBody: everything ReadAll gets out of request.Body, whose
\* error is dropped; request.Body becomes a fresh reader over those bytes.
readAndReplaceBody(request) ==
    LET payload == ReadAll(request.Body).data
    IN  [ request |-> [request EXCEPT !.Body = NewReader(payload)],
          payload |-> payload ]

\* The hash taken of the -d argument as typed, where the code hashes the
\* bytes read out of the request body.
HashBodyOfData ==
    /\ pc = "headers"
    /\ hIdx > Len(flags.headers)
    /\ req' = readAndReplaceBody(req).request
    /\ reqBodySHA256' = hashSHA256(flags.data)
    /\ body' = Drained(body)
    /\ pc' = "retrieve"
    /\ UNCHANGED << flags, env, cfg, file, hIdx, creds, target, sent, response,
                    content, stdout, stderr, err, exitCode, trace >>

\* After the loop: reqBody := readAndReplaceBody(req) and
\* reqBodySHA256 := hashSHA256(reqBody).
HashBody ==
    /\ pc = "headers"
    /\ hIdx > Len(flags.headers)
    /\ LET r == readAndReplaceBody(req)
       IN  /\ req' = r.request
           /\ reqBodySHA256' = hashSHA256(r.payload)
    /\ body' = Drained(body)
    /\ pc' = "retrieve"
    /\ UNCHANGED << flags, env, cfg, file, hIdx, creds, target, sent, response,
                    content, stdout, stderr, err, exitCode, trace >>

\* Retrieve going on to sign with the zero credentials when the provider
\* fails (the error dropped, as readAndReplaceBody drops ReadAll's).
RetrieveIgnoreError ==
    /\ pc = "retrieve"
    /\ IF cfg.Credentials.kind = "static"
       THEN /\ creds' = cfg.Credentials.value
            /\ trace' = Append(trace, "retrieve")
       ELSE /\ \E c \in {RoleCredentials, NoCredentials} : creds' = c
            /\ trace' = trace \o <<"retrieve", "imds">>
    /\ pc' = "sign"
    /\ UNCHANGED << flags, env, cfg, file, body, req, hIdx, reqBodySHA256,
                    target, sent, response, content, stdout, stderr, err,
                    exitCode >>

\* creds, err := cfg.Credentials.Retrieve(ctx); an error is returned.  A
\* static provider hands out its value.  The EC2 role provider asks the
\* instance metadata service over the network, which hands out the role's
\* credentials or, where there is no such service or role, fails.
Retrieve ==
    /\ pc = "retrieve"
    /\ IF cfg.Credentials.kind = "static"
       THEN /\ creds' = cfg.Credentials.value
            /\ pc' = "sign"
            /\ err' = err
            /\ trace' = Append(trace, "retrieve")
       ELSE /\ \E ok \in BOOLEAN :
                  IF ok
                  THEN /\ creds' = RoleCredentials
                       /\ pc' = "sign"
                       /\ err' = err
                  ELSE /\ err' = "failed to retrieve credentials"
                       /\ pc' = "return"
                       /\ creds' = creds
            /\ trace' = trace \o <<"retrieve", "imds">>
    /\ UNCHANGED << flags, env, cfg, file, body, req, hIdx, reqBodySHA256,
                    target, sent, response, content, stdout, stderr, exitCode >>

\* v4.Signer.SignHTTP: the signature headers are added to the request; the
\* body is left alone.  The signer checks neither the credentials nor the
\* region, and it returns no error for a request http.NewRequest built.
SignHTTP(c, r, payloadHash, region, now) ==
    [ request |-> [r EXCEPT !.Signature =
                      SignatureOf(c, r, payloadHash, region, now)],
      err |-> "" ]

\* err = signer.SignHTTP(req.Context(), creds, req, reqBodySHA256,
\* flags.awsService, cfg.Region, time.Now()); an error is returned.
Sign ==
    /\ pc = "sign"
    /\ \E now \in 1..MaxTime :
          LET r == SignHTTP(creds, req, reqBodySHA256, cfg.Region, now)
          IN  IF r.err # ""
              THEN /\ err' = r.err
                   /\ pc' = "return"
                   /\ req' = req
              ELSE /\ req' = r.request
                   /\ pc' = "proxy"
                   /\ err' = err
    /\ trace' = Append(trace, "sign")
    /\ UNCHANGED << flags, env, cfg, file, body, hIdx, reqBodySHA256, creds,
                    target, sent, response, content, stdout, stderr, exitCode >>

\* The transport: with --proxy, urls.Parse(flags.proxy), whose error is
\* returned.
SetProxy ==
    /\ pc = "proxy"
    /\ IF flags.proxy # "" /\ flags.proxy \in BadURLs
       THEN /\ err' = "parse proxy url"
            /\ pc' = "return"
       ELSE /\ pc' = "do"
            /\ err' = err
    /\ UNCHANGED << flags, env, cfg, file, body, req, hIdx, reqBodySHA256,
                    creds, target, sent, response, content, stdout, stderr,
                    exitCode, trace >>

\* client.Do(req), first half: the transport sends the request as it stands
\* (what req.Body yields, and the signature headers), by way of the proxy
\* when one is set.  The client has no Timeout and the request no deadline.
Dispatch ==
    /\ pc = "do"
    /\ sent' = Append(sent, [ body |-> ReadAll(req.Body).data,
                              Header |-> req.Header,
                              Signature |-> req.Signature,
                              via |-> flags.proxy ])
    /\ req' = [req EXCEPT !.Body = Drained(@)]
    /\ \E t \in TargetBehaviours : target' = t
    /\ pc' = "awaitResponse"
    /\ trace' = Append(trace, "dispatch")
    /\ UNCHANGED << flags, env, cfg, file, body, hIdx, reqBodySHA256, creds,
                    response, content, stdout, stderr, err, exitCode >>

\* client.Do sending the request again when the transport fails.
ClientDoRetry ==
    /\ pc = "awaitResponse"
    /\ target \in {"answers", "fails"}
    /\ IF target = "fails"
       THEN /\ pc' = "do"
            /\ UNCHANGED << err, response >>
       ELSE /\ \E r \in Responses : response' = r
            /\ pc' = "readAll"
            /\ err' = err
    /\ target' = "none"
    /\ UNCHANGED << flags, env, cfg, file, body, req, hIdx, reqBodySHA256,
                    creds, sent, content, stdout, stderr, exitCode, trace >>

\* client.Do(req), second half: it returns when the target has answered or
\* the transport has failed, and the transport's error is returned.  While
\* the target stays silent it does not return.
ClientDoReturns ==
    /\ pc = "awaitResponse"
    /\ target \in {"answers", "fails"}
    /\ IF target = "fails"
       THEN /\ err' = "transport error"
            /\ pc' = "return"
            /\ response' = response
       ELSE /\ \E r \in Responses : response' = r
            /\ pc' = "readAll"
            /\ err' = err
    /\ target' = "none"
    /\ UNCHANGED << flags, env, cfg, file, body, req, hIdx, reqBodySHA256,
                    creds, sent, content, stdout, stderr, exitCode, trace >>

\* content, err = ioutil.ReadAll(response.Body); an error is returned.
ReadResponse ==
    /\ pc = "readAll"
    /\ LET r == ReadAll(response.Body)
       IN  IF r.err # ""
           THEN /\ err' = "read response"
                /\ pc' = "return"
                /\ content' = content
           ELSE /\ content' = r.data
                /\ pc' = "print"
                /\ err' = err
    /\ response' = [response EXCEPT !.Body = Drained(@)]
    /\ UNCHANGED << flags, env, cfg, file, body, req, hIdx, reqBodySHA256,
                    creds, target, sent, stdout, stderr, exitCode, trace >>

\* fmt.Println(string(content)); return nil.  Println's (n, err) is
\* discarded: the write to standard output can stop after n bytes (a full
\* device, a closed descriptor) and runCurl returns nil all the same.
Println ==
    /\ pc = "print"
    /\ \E n \in 0..(Len(content) + 1) :
          stdout' = stdout \o SubSeq(content \o <<"\n">>, 1, n)
    /\ err' = ""
    /\ pc' = "return"
    /\ trace' = Append(trace, "print")
    /\ UNCHANGED << flags, env, cfg, file, body, req, hIdx, reqBodySHA256,
                    creds, target, sent, response, content, stderr, exitCode >>

\* main: rootCmd.Execute() hands back runCurl's error, having printed it to
\* standard error; os.Exit(1) on an error, else main returns (status 0).
Main ==
    /\ pc = "return"
    /\ IF err # ""
       THEN /\ stderr' = Append(stderr, err)
            /\ exitCode' = 1
       ELSE /\ stderr' = stderr
            /\ exitCode' = 0
    /\ pc' = "exit"
    /\ trace' = Append(trace, "exit")
    /\ UNCHANGED << flags, env, cfg, file, body, req, hIdx, reqBodySHA256,
                    creds, target, sent, response, content, stdout, err >>

Next ==
    \/ GetAWSConfig
    \/ OpenBody
    \/ NewRequest
    \/ AddHeader
    \/ HashBody
    \/ Retrieve
    \/ Sign
    \/ SetProxy
    \/ Dispatch
    \/ ClientDoReturns
    \/ ReadResponse
    \/ Println
    \/ Main

Spec == Init /\ [][Next]_vars

(***************************************************************************)
(* What the claims speak of.                                               *)
(***************************************************************************)

\* The requests that went over the network: to the instance metadata
\* service (credential retrieval) and to the target.
NetworkCalls == { i \in DOMAIN trace : trace[i] \in {"imds", "dispatch"} }

\* The errors of the steps that come before the header loop.
EarlierErrors ==
    { "Unable to load AWS config", "open: no such file or directory", "parse url" }

\* The credentials the --access-key, --secret-key and --session-token flags
\* spell out.
ExplicitCredentials ==
    Credentials(flags.awsAccessKey, flags.awsSecretKey, flags.awsSessionToken,
                "StaticCredentials")

\* Both keys are given on the command line.
ExplicitKeys == flags.awsAccessKey # "" /\ flags.awsSecretKey # ""

\* One key without the other, or a session token without both keys.
PartialCredentials ==
    \/ (flags.awsAccessKey # "") # (flags.awsSecretKey # "")
    \/ flags.awsSessionToken # "" /\ ~ExplicitKeys

\* A --header argument with no colon at all.
NoColon(h) == \A i \in 1..Len(h) : h[i] # ":"

HasNoColonArg == \E i \in DOMAIN flags.headers : NoColon(flags.headers[i])

\* A --header argument of the form "Name: Value": a non-empty name, a colon,
\* and a value, in which further colons may stand.
NameValueForm(h) ==
    \E i \in 1..Len(h) :
        /\ h[i] = ":"
        /\ \A j \in 1..(i - 1) : h[j] # ":"
        /\ TrimSpace(SubSeq(h, 1, i - 1)) # <<>>

\* The bytes the -d argument asks to be sent: the string itself, or all of
\* the file it names.
IntendedBody ==
    IF HasPrefix(flags.data, <<"@">>) THEN file.content ELSE flags.data

\* The payload file could not be opened, or reading it fails.
FileUnreadable ==
    \/ file.kind = "absent"
    \/ file.kind \in {"directory", "regular"}
       /\ ReadAll(Reader(file.content, file.failAt)).err # ""

\* The place of each step in the order resolve, sign, dispatch, print, exit.
Rank(e) ==
    CASE e = "config"   -> 0
      [] e = "retrieve" -> 1
      [] e = "imds"     -> 2
      [] e = "sign"     -> 3
      [] e = "dispatch" -> 4
      [] e = "print"    -> 5
      [] e = "exit"     -> 6

\* C1: once credential retrieval has failed nothing is ever sent to the
\* target and the process exits with status 1; and whatever was sent to the
\* target, or is about to be, was sent after Retrieve gave credentials with
\* both keys and SignHTTP signed the request with them.
C1_NoDispatchWithoutCredentials ==
    /\ err = "failed to retrieve credentials"
          => /\ sent = <<>>
             /\ ~req.Signature.signed
             /\ pc \in {"return", "exit"}
             /\ pc = "exit" => exitCode = 1
    /\ (sent # <<>> \/ pc \in {"do", "awaitResponse"})
          => /\ HasKeys(creds)
             /\ req.Signature.signed
             /\ req.Signature.Credentials = creds
    /\ \A i \in DOMAIN sent :
          sent[i].Signature.signed /\ HasKeys(sent[i].Signature.Credentials)

\* C1 happens: no source had credentials, and the process has exited with
\* status 1 having sent nothing.
C1_Witness ==
    /\ pc = "exit"
    /\ err = "failed to retrieve credentials"
    /\ exitCode = 1
    /\ sent = <<>>
    /\ "imds" \in { trace[i] : i \in DOMAIN trace }

\* C2 as stated: whenever a --header argument has no colon, the run ends in
\* the invalid-header error, with no network call made.
C2_AlwaysInvalidHeaderError ==
    (HasNoColonArg /\ pc = "exit")
        => err = "Error: Invalid header" /\ NetworkCalls = {}

\* C2 as amended: whenever a --header argument has no colon, no network call
\* is ever made and nothing is signed, the run ends with status 1, and its
\* error is the invalid-header error unless loading the configuration,
\* opening the payload file or building the request has failed before.
C2_NoColonFailsBeforeNetwork ==
    HasNoColonArg
        => /\ NetworkCalls = {}
           /\ sent = <<>>
           /\ ~req.Signature.signed
           /\ pc \in {"getAWSConfig", "openBody", "newRequest", "headers",
                      "return", "exit"}
           /\ pc = "exit"
                 => /\ exitCode = 1
                    /\ err \in EarlierErrors \cup {"Error: Invalid header"}
                    /\ req.URL # "" => err = "Error: Invalid header"

\* C2 happens: the second --header argument has no colon, the first was
\* added, and the run has ended in the invalid-header error.
C2_Witness ==
    /\ pc = "exit"
    /\ err = "Error: Invalid header"
    /\ hIdx = 2
    /\ NoColon(flags.headers[hIdx])
    /\ HeaderCount(req.Header) = 1
    /\ NetworkCalls = {}

\* C3 as stated: the invalid-header error is raised only for an argument
\* that is not of the form "Name: Value", and when the loop is through every
\* argument has been added to the request.
C3_NameValueHeadersAccepted ==
    /\ err = "Error: Invalid header" => ~NameValueForm(flags.headers[hIdx])
    /\ pc \in {"retrieve", "sign", "proxy", "do"}
          => HeaderCount(req.Header) = Len(flags.headers)

\* C4: with both --access-key and --secret-key given, a request is only ever
\* signed, and sent, with exactly those keys and the --session-token.
C4_ExplicitKeysFirst ==
    ExplicitKeys
        => /\ req.Signature.signed
                 => req.Signature.Credentials = ExplicitCredentials
           /\ pc \in {"sign", "proxy", "do", "awaitResponse"}
                 => creds = ExplicitCredentials
           /\ \A i \in DOMAIN sent :
                 sent[i].Signature.Credentials = ExplicitCredentials

\* C4 happens: the request is signed with the explicit keys while a profile
\* is named and the environment holds keys of its own.
C4_Witness ==
    /\ ExplicitKeys
    /\ flags.awsProfile = "p1"
    /\ env.AWS_ACCESS_KEY_ID # ""
    /\ req.Signature.signed
    /\ req.Signature.Credentials.AccessKeyID = flags.awsAccessKey
    /\ sent # <<>>

\* C5 as stated: with partial explicit credentials nothing is signed or
\* sent, and the run ends with status 1.
C5_PartialCredentialsFailFast ==
    PartialCredentials
        => /\ ~req.Signature.signed
           /\ sent = <<>>
           /\ pc = "exit" => exitCode = 1

\* C6 as stated: a request is signed with the --region flag when one is
\* given, and never with an empty region.
C6_RegionResolved ==
    req.Signature.signed
        => /\ flags.awsRegion # "" => req.Signature.Region = flags.awsRegion
           /\ req.Signature.Region # ""

\* The half of C6 the code keeps: the --region flag overrides.
RegionFlagOverrides ==
    (req.Signature.signed /\ flags.awsRegion # "")
        => req.Signature.Region = flags.awsRegion

\* C7 as stated: the hash handed to the signer is that of the bytes the -d
\* argument asks to be sent (the string, or all of the file), and those are
\* the bytes sent.
C7_HashOfIntendedBody ==
    /\ req.Signature.signed
          => req.Signature.PayloadHash = hashSHA256(IntendedBody)
    /\ \A i \in DOMAIN sent : sent[i].body = IntendedBody

\* The half of C7 the code keeps: what is sent is what was hashed.
HashMatchesTransmitted ==
    \A i \in DOMAIN sent :
        sent[i].Signature.PayloadHash = hashSHA256(sent[i].body)

\* C8 as stated: with an unreadable payload file nothing is signed or sent,
\* and the run ends with status 1.
C8_UnreadableFileIsAnError ==
    FileUnreadable
        => /\ ~req.Signature.signed
           /\ sent = <<>>
           /\ pc = "exit" => exitCode = 1

\* C9: the steps come in the order resolve credentials, sign, dispatch,
\* print, exit, each at most once, so the request is sent at most once; and
\* a transport error ends the run with that error after the one dispatch,
\* with nothing on standard output.
C9_SingleDispatchInOrder ==
    /\ \A i, j \in DOMAIN trace : i < j => Rank(trace[i]) < Rank(trace[j])
    /\ Len(sent) = Cardinality({ i \in DOMAIN trace : trace[i] = "dispatch" })
    /\ Len(sent) <= 1
    /\ stdout # <<>> => sent # <<>>
    /\ err = "transport error"
          => /\ Len(sent) = 1
             /\ stdout = <<>>
             /\ pc \in {"return", "exit"}
             /\ pc = "exit" => exitCode = 1 /\ stderr = <<err>>

\* C9 happens: the one dispatch failed in the transport and the process has
\* exited with that error.
C9_Witness ==
    /\ pc = "exit"
    /\ err = "transport error"
    /\ trace = <<"config", "retrieve", "sign", "dispatch", "exit">>
    /\ exitCode = 1

\* C10 as stated: every invocation terminates, so a process that has not
\* exited can always take a step.
C10_EveryInvocationTerminates ==
    pc = "exit" \/ ENABLED Next

\* The signature headers an invocation puts on a request with this URL,
\* these headers and this body, signing with these credentials for this
\* region at this instant: the body is hashed and SignHTTP is applied.
SignedHeadersFor(url, header, bodyBytes, c, region, now) ==
    SignHTTP(c,
             [ URL |-> url, Header |-> header, Body |-> NewReader(bodyBytes),
               Signature |-> NoSignature ],
             hashSHA256(bodyBytes), region, now).request.Signature

C12_ExitStatus ==
    pc = "exit"
        => /\ exitCode \in {0, 1}
           /\ exitCode = 0
                 <=> /\ response # NoResponse
                     /\ content = response.Body.data
                     /\ stdout = response.Body.data \o <<"\n">>
           /\ exitCode = 1 => stdout = <<>>

\* The part of C12 the code keeps: the status is 1 exactly when runCurl
\* returned an error, which is then the one line on standard error, with
\* nothing on standard output; status 0 means a response of whatever status
\* code was received and read to its end.
ExitStatusFollowsError ==
    pc = "exit"
        => /\ exitCode \in {0, 1}
           /\ exitCode = 1 <=> err # ""
           /\ exitCode = 1 => stdout = <<>> /\ stderr = <<err>>
           /\ exitCode = 0
                 => /\ response # NoResponse
                    /\ content = response.Body.data
                    /\ stderr = <<>>

====
